---- MODULE Spec2Model ----
(***************************************************************************)
(* Model of the indexable skip list of pkg/skiplist (skiplist.go, node.go). *)
(* The heap maps node addresses to Node structs.  A slice is modelled by    *)
(* its backing array (a sequence of length cap) and its length `len`;       *)
(* level i of the Go code (0-based) is index i + 1 of the sequence.         *)
(***************************************************************************)
EXTENDS Integers, Sequences, FiniteSets, TLC

\* ---- bounds of the model ----
MaxKey == 2
MaxVal == 2
maxLevel == 2

Keys == 1..MaxKey
Values == 1..MaxVal
Levels == 1..maxLevel
\* positions handed to GetByPos / RemoveByPos, including out-of-range ones
Positions == (0 - 1)..MaxKey

\* ---- addresses ----
head == 0
Nil == 0 - 1
InvalidPos == 0 - 1
dummyKey == 0
dummyValue == 0
\* addresses the allocator can hand out: one per key, plus spare ones
Addrs == 1..(2 * MaxKey)

\* heap, count: the list; ret: the last call and what it returned; panicked:
\* the process died; policy: the level policy's own state (the variables a
\* policy closure captured, or the locals of a running defaultLevelFunc)
VARIABLES heap, count, ret, panicked, policy
vars == <<heap, count, ret, panicked, policy>>

\* ---- node.go ----
newNode(key, value, level, capacity) ==
    LET cap == IF capacity < level THEN level ELSE capacity
    IN  [key |-> key, Value |-> value,
         next |-> [i \in 1..cap |-> Nil],
         dist |-> [i \in 1..cap |-> 0],
         len |-> level]

NodeLevel(n) == n.len

NodeNext(h, x) == IF h[x].len > 0 THEN h[x].next[1] ELSE Nil

\* the re-slicing alone: the slots that come back into view keep what they held
extendLevel_keep(n, newLevel) ==
    LET oldLevel == NodeLevel(n)
    IN  IF newLevel > oldLevel THEN [n EXCEPT !.len = newLevel] ELSE n

extendLevel(n, newLevel) ==
    LET oldLevel == NodeLevel(n)
    IN  IF newLevel > oldLevel
        THEN [n EXCEPT !.len = newLevel,
                       !.next = [i \in DOMAIN n.next |->
                                   IF i > oldLevel /\ i <= newLevel THEN Nil ELSE n.next[i]],
                       !.dist = [i \in DOMAIN n.dist |->
                                   IF i > oldLevel /\ i <= newLevel THEN 0 ELSE n.dist[i]]]
        ELSE n

shrinkLevel(n, newLevel) ==
    LET oldLevel == NodeLevel(n)
    IN  IF newLevel < oldLevel THEN [n EXCEPT !.len = newLevel] ELSE n

\* ---- skiplist.go: accessors ----
First(h) == NodeNext(h, head)
Size(c) == c
Level(h) == NodeLevel(h[head])

\* the address new(Node) returns: any address that is not live; the model
\* picks the key's own address when it is free and a spare one otherwise
alloc(h, key) ==
    IF key \notin DOMAIN h THEN key
    ELSE CHOOSE a \in Addrs : a \notin DOMAIN h /\ \A b \in Addrs : b \notin DOMAIN h => a <= b

\* s.maxLevel: NewSkipList gives the head exactly this capacity, and nothing
\* reallocates the head's slices afterwards
sMaxLevel(h) == Len(h[head].next)

\* make([]*Node, s.Level(), s.maxLevel) and make([]int, s.Level(), s.maxLevel)
makeUpdate(h) == [i \in 1..sMaxLevel(h) |-> Nil]
makeUpdatePos(h) == [i \in 1..sMaxLevel(h) |-> 0]

\* the comparison with its operands exchanged
Less_swapped(a, b) == b < a

\* the comparison that also passes an equal key
Less_orEqual(a, b) == a <= b

\* cmp.Less on the ordered key type
Less(a, b) == a < b

\* ---- descent by key (Set, Get, Remove) ----
\* inner loop: for x.next[i] != nil && cmp.Less(x.next[i].key, key)
\* ok = FALSE models the index-out-of-range panic of x.next[i]
RECURSIVE advance(_, _, _, _, _)
advance(h, x, pos, i, key) ==
    IF i >= h[x].len
    THEN [x |-> x, pos |-> pos, ok |-> FALSE]
    ELSE LET y == h[x].next[i + 1]
         IN  IF y # Nil /\ Less(h[y].key, key)
             THEN advance(h, y, pos + h[x].dist[i + 1], i, key)
             ELSE [x |-> x, pos |-> pos, ok |-> TRUE]

\* outer loop: for i := s.Level() - 1; i >= 0; i--
RECURSIVE search(_, _, _, _, _, _, _)
search(h, x, pos, i, key, update, updatePos) ==
    IF i < 0
    THEN [x |-> x, pos |-> pos, update |-> update, updatePos |-> updatePos, ok |-> TRUE]
    ELSE LET a == advance(h, x, pos, i, key)
         IN  IF ~a.ok
             THEN [x |-> a.x, pos |-> a.pos, update |-> update, updatePos |-> updatePos,
                   ok |-> FALSE]
             ELSE search(h, a.x, a.pos, i - 1, key,
                         [update EXCEPT ![i + 1] = a.x],
                         [updatePos EXCEPT ![i + 1] = a.pos])

\* the test that forgets to compare the key
found_anyKey(h, x, key) ==
    /\ h[x].len > 0
    /\ h[x].next[1] # Nil

\* x.next[0] != nil && x.next[0].key == key, after len(x.next) > 0
found(h, x, key) ==
    /\ h[x].len > 0
    /\ h[x].next[1] # Nil
    /\ h[h[x].next[1]].key = key

\* result of an operation that panicked: nothing is returned
panicResult(h, c) ==
    [heap |-> h, count |-> c, node |-> Nil, pos |-> InvalidPos, inserted |-> FALSE,
     ok |-> FALSE]

\* ---- Set ----
\* the position Set returns for an overridden key
overridePos(pos) == pos

\* the position of the predecessor: the + 1 forgotten
insertPos_pred(pos) == pos

\* the position Set returns for an inserted key
insertPos(pos) == pos + 1

\* the earlier formula: update[i].dist[i] - delta - 1, clamped at 0
insertDist_clamped(d, delta) == IF d - delta - 1 < 0 THEN 0 ELSE d - delta - 1

\* x.dist[i] = update[i].dist[i] - delta
insertDist(d, delta) == d - delta

\* the override that forgets to store the value
override_lost(h, x, value) == h

\* key already exists: override value (x.Value = value)
override(h, x, value) == [h EXCEPT ![x].Value = value]

\* the loop over the new head levels: update[i] = s.head, updatePos[i] = -1,
\* s.head.dist[i] = s.Size() + 1
growHead(hd, oldLevel, newLevel, c) ==
    LET e == extendLevel(hd, newLevel)
    IN  [e EXCEPT !.dist = [i \in DOMAIN e.dist |->
                              IF i > oldLevel /\ i <= newLevel THEN Size(c) + 1
                              ELSE e.dist[i]]]

\* the two link assignments in the wrong order: update[i].next[i] = x first,
\* so that x.next[i] = update[i].next[i] makes x its own successor
RECURSIVE splice_selfLink(_, _, _, _, _, _, _)
splice_selfLink(h, x, i, newLevel, pos, update, updatePos) ==
    IF i >= Level(h)
    THEN [heap |-> h, ok |-> TRUE]
    ELSE LET u == update[i + 1]
         IN  IF u = Nil \/ i >= h[u].len
             THEN [heap |-> h, ok |-> FALSE]
             ELSE IF i >= newLevel
             THEN splice_selfLink([h EXCEPT ![u].dist[i + 1] = @ + 1],
                                  x, i + 1, newLevel, pos, update, updatePos)
             ELSE LET delta == pos - updatePos[i + 1]
                      h1 == [h EXCEPT ![u].next[i + 1] = x]
                      h2 == [h1 EXCEPT ![x].next[i + 1] = h1[u].next[i + 1]]
                      h3 == [h2 EXCEPT ![x].dist[i + 1] = insertDist(h2[u].dist[i + 1], delta)]
                      h4 == [h3 EXCEPT ![u].dist[i + 1] = delta + 1]
                  IN  splice_selfLink(h4, x, i + 1, newLevel, pos, update, updatePos)

\* for i := 0; i < s.Level(); i++ { ... } of the insert path
RECURSIVE splice(_, _, _, _, _, _, _)
splice(h, x, i, newLevel, pos, update, updatePos) ==
    IF i >= Level(h)
    THEN [heap |-> h, ok |-> TRUE]
    ELSE LET u == update[i + 1]
         IN  IF u = Nil \/ i >= h[u].len
             THEN [heap |-> h, ok |-> FALSE]
             ELSE IF i >= newLevel
             THEN splice([h EXCEPT ![u].dist[i + 1] = @ + 1],
                         x, i + 1, newLevel, pos, update, updatePos)
             ELSE LET delta == pos - updatePos[i + 1]
                      h1 == [h EXCEPT ![x].next[i + 1] = h[u].next[i + 1]]
                      h2 == [h1 EXCEPT ![u].next[i + 1] = x]
                      h3 == [h2 EXCEPT ![x].dist[i + 1] = insertDist(h2[u].dist[i + 1], delta)]
                      h4 == [h3 EXCEPT ![u].dist[i + 1] = delta + 1]
                  IN  splice(h4, x, i + 1, newLevel, pos, update, updatePos)

\* update[:newLevel], updatePos[:newLevel] and the head's next[:newLevel],
\* dist[:newLevel] stay within the capacity s.maxLevel
resliceOk(update, newLevel) == newLevel <= Len(update)

\* the insert path of Set, from newLevel := s.randomLevel() on
insert(h, c, key, value, newLevel, s) ==
    LET oldLevel == Level(h)
        grow == newLevel > oldLevel
        h1 == IF grow
              THEN [h EXCEPT ![head] = growHead(h[head], oldLevel, newLevel, c)]
              ELSE h
        update == IF grow
                  THEN [i \in DOMAIN s.update |->
                          IF i > oldLevel /\ i <= newLevel THEN head ELSE s.update[i]]
                  ELSE s.update
        updatePos == IF grow
                     THEN [i \in DOMAIN s.updatePos |->
                             IF i > oldLevel /\ i <= newLevel THEN 0 - 1 ELSE s.updatePos[i]]
                     ELSE s.updatePos
        x == alloc(h1, key)
        h2 == (x :> newNode(key, value, newLevel, newLevel)) @@ h1
        r == splice(h2, x, 0, newLevel, s.pos, update, updatePos)
    IN  IF grow /\ ~resliceOk(s.update, newLevel) THEN panicResult(h, c)
        ELSE IF ~r.ok THEN panicResult(h, c)
        ELSE [heap |-> r.heap, count |-> c + 1, node |-> x, pos |-> insertPos(s.pos),
              inserted |-> TRUE, ok |-> TRUE]

\* a Set result together with the number of s.randomLevel() calls it made
withDraws(r, n) ==
    [heap |-> r.heap, count |-> r.count, node |-> r.node, pos |-> r.pos,
     inserted |-> r.inserted, ok |-> r.ok, draws |-> n]

\* the insert path calls s.randomLevel() once, before it changes anything
insertDraws == 1

\* the level drawn before the key is looked for
overrideDraws_eager == insertDraws

\* the override path returns before newLevel := s.randomLevel()
overrideDraws == 0

Set(h, c, key, value, newLevel) ==
    LET s == search(h, head, 0 - 1, Level(h) - 1, key, makeUpdate(h), makeUpdatePos(h))
    IN  IF ~s.ok THEN withDraws(panicResult(h, c), 0)
        ELSE IF found(h, s.x, key)
        THEN LET x == h[s.x].next[1]
             IN  withDraws([heap |-> override(h, x, value), count |-> c, node |-> x,
                            pos |-> overridePos(s.pos), inserted |-> FALSE, ok |-> TRUE],
                           overrideDraws)
        ELSE withDraws(insert(h, c, key, value, newLevel, s), insertDraws)

\* ---- Get ----
Get(h, key) ==
    LET s == search(h, head, 0 - 1, Level(h) - 1, key, makeUpdate(h), makeUpdatePos(h))
    IN  IF ~s.ok THEN [node |-> Nil, pos |-> InvalidPos, ok |-> FALSE]
        ELSE IF h[s.x].len > 0
        THEN LET x == h[s.x].next[1]
                 pos == s.pos + 1
             IN  IF x # Nil /\ h[x].key = key
                 THEN [node |-> x, pos |-> pos, ok |-> TRUE]
                 ELSE [node |-> Nil, pos |-> InvalidPos, ok |-> TRUE]
        ELSE [node |-> Nil, pos |-> InvalidPos, ok |-> TRUE]

\* ---- GetByPos ----
\* inner loop: for x.next[i] != nil && pos+x.dist[i] <= k
RECURSIVE advanceByPos(_, _, _, _, _)
advanceByPos(h, x, pos, i, k) ==
    IF i >= h[x].len
    THEN [x |-> x, pos |-> pos, ok |-> FALSE]
    ELSE IF h[x].next[i + 1] # Nil /\ pos + h[x].dist[i + 1] <= k
    THEN advanceByPos(h, h[x].next[i + 1], pos + h[x].dist[i + 1], i, k)
    ELSE [x |-> x, pos |-> pos, ok |-> TRUE]

\* outer loop: for i := s.Level() - 1; i >= 0; i--
RECURSIVE descendByPos(_, _, _, _, _)
descendByPos(h, x, pos, i, k) ==
    IF i < 0
    THEN [x |-> x, pos |-> pos, ok |-> TRUE]
    ELSE LET a == advanceByPos(h, x, pos, i, k)
         IN  IF ~a.ok THEN a ELSE descendByPos(h, a.x, a.pos, i - 1, k)

\* the earlier GetByPos descent, which starts at pos 0
GetByPos_pos0(h, c, k) ==
    IF k < 0 \/ k >= c
    THEN [node |-> Nil, ok |-> TRUE]
    ELSE LET d == descendByPos(h, head, 0, Level(h) - 1, k)
         IN  IF ~d.ok THEN [node |-> Nil, ok |-> FALSE]
             ELSE [node |-> d.x, ok |-> TRUE]

\* the earlier GetByPos range check, which lets k < 0 through
GetByPos_nolow(h, c, k) ==
    IF k >= c
    THEN [node |-> Nil, ok |-> TRUE]
    ELSE LET d == descendByPos(h, head, 0 - 1, Level(h) - 1, k)
         IN  IF ~d.ok THEN [node |-> Nil, ok |-> FALSE]
             ELSE [node |-> d.x, ok |-> TRUE]

GetByPos(h, c, k) ==
    IF k < 0 \/ k >= c
    THEN [node |-> Nil, ok |-> TRUE]
    ELSE LET d == descendByPos(h, head, 0 - 1, Level(h) - 1, k)
         IN  IF ~d.ok THEN [node |-> Nil, ok |-> FALSE]
             ELSE [node |-> d.x, ok |-> TRUE]

\* the unlinking of a plain linked list: only level 0 is treated
RECURSIVE unlink_bottomOnly(_, _, _, _)
unlink_bottomOnly(h, x, i, update) ==
    IF i >= Level(h) \/ i >= 1
    THEN [heap |-> h, ok |-> TRUE]
    ELSE LET u == update[i + 1]
         IN  IF u = Nil \/ i >= h[u].len
             THEN [heap |-> h, ok |-> FALSE]
             ELSE IF h[u].next[i + 1] = x
             THEN IF x = Nil \/ i >= h[x].len
                  THEN [heap |-> h, ok |-> FALSE]
                  ELSE unlink_bottomOnly([h EXCEPT ![u].next[i + 1] = h[x].next[i + 1],
                                                   ![u].dist[i + 1] = @ + h[x].dist[i + 1] - 1],
                                         x, i + 1, update)
             ELSE unlink_bottomOnly([h EXCEPT ![u].dist[i + 1] = @ - 1], x, i + 1, update)

\* the unlinking of a skip list without counters: above the removed node's
\* levels nothing is done
RECURSIVE unlink_noElse(_, _, _, _)
unlink_noElse(h, x, i, update) ==
    IF i >= Level(h)
    THEN [heap |-> h, ok |-> TRUE]
    ELSE LET u == update[i + 1]
         IN  IF u = Nil \/ i >= h[u].len
             THEN [heap |-> h, ok |-> FALSE]
             ELSE IF h[u].next[i + 1] = x
             THEN IF x = Nil \/ i >= h[x].len
                  THEN [heap |-> h, ok |-> FALSE]
                  ELSE unlink_noElse([h EXCEPT ![u].next[i + 1] = h[x].next[i + 1],
                                               ![u].dist[i + 1] = @ + h[x].dist[i + 1] - 1],
                                     x, i + 1, update)
             ELSE unlink_noElse(h, x, i + 1, update)

\* ---- Remove and RemoveByPos ----
\* remove node from list: for i := 0; i < s.Level(); i++ { ... }
\* ok = FALSE models a nil dereference or an index out of range
RECURSIVE unlink(_, _, _, _)
unlink(h, x, i, update) ==
    IF i >= Level(h)
    THEN [heap |-> h, ok |-> TRUE]
    ELSE LET u == update[i + 1]
         IN  IF u = Nil \/ i >= h[u].len
             THEN [heap |-> h, ok |-> FALSE]
             ELSE IF h[u].next[i + 1] = x
             THEN IF x = Nil \/ i >= h[x].len
                  THEN [heap |-> h, ok |-> FALSE]
                  ELSE unlink([h EXCEPT ![u].next[i + 1] = h[x].next[i + 1],
                                        ![u].dist[i + 1] = @ + h[x].dist[i + 1] - 1],
                              x, i + 1, update)
             ELSE unlink([h EXCEPT ![u].dist[i + 1] = @ - 1], x, i + 1, update)

\* the removal that never lowers the height
adaptLevel_keep(h, newLevel) == newLevel

\* adapt level: for newLevel > 0 && s.head.next[newLevel-1] == nil { newLevel-- }
RECURSIVE adaptLevel(_, _)
adaptLevel(h, newLevel) ==
    IF newLevel > 0 /\ h[head].next[newLevel] = Nil
    THEN adaptLevel(h, newLevel - 1)
    ELSE newLevel

\* the removed node is no longer part of the list; its storage is reclaimed
free(h, x) == [n \in DOMAIN h \ {x} |-> h[n]]

\* the position of the predecessor: pos++ forgotten
removePos_pred(pos) == pos

\* the position Remove returns: pos++ after the key was found
removePos(pos) == pos + 1

Remove(h, c, key) ==
    LET s == search(h, head, 0 - 1, Level(h) - 1, key, makeUpdate(h), makeUpdatePos(h))
    IN  IF ~s.ok THEN panicResult(h, c)
        ELSE IF found(h, s.x, key)
        THEN LET x == h[s.x].next[1]
                 r == unlink(h, x, 0, s.update)
                 h1 == [r.heap EXCEPT ![head] = shrinkLevel(@, adaptLevel(r.heap, Level(r.heap)))]
             IN  IF ~r.ok THEN panicResult(h, c)
                 ELSE [heap |-> free(h1, x), count |-> c - 1, node |-> x,
                       pos |-> removePos(s.pos), inserted |-> FALSE, ok |-> TRUE]
        ELSE [heap |-> h, count |-> c, node |-> Nil, pos |-> InvalidPos,
              inserted |-> FALSE, ok |-> TRUE]

\* the loop of GetByPos taken over unchanged: <= k instead of < k
RECURSIVE advanceBefore_le(_, _, _, _, _)
advanceBefore_le(h, x, pos, i, k) ==
    IF i >= h[x].len
    THEN [x |-> x, pos |-> pos, ok |-> FALSE]
    ELSE IF h[x].next[i + 1] # Nil /\ pos + h[x].dist[i + 1] <= k
    THEN advanceBefore_le(h, h[x].next[i + 1], pos + h[x].dist[i + 1], i, k)
    ELSE [x |-> x, pos |-> pos, ok |-> TRUE]

\* inner loop of RemoveByPos: for x.next[i] != nil && pos+x.dist[i] < k
RECURSIVE advanceBefore(_, _, _, _, _)
advanceBefore(h, x, pos, i, k) ==
    IF i >= h[x].len
    THEN [x |-> x, pos |-> pos, ok |-> FALSE]
    ELSE IF h[x].next[i + 1] # Nil /\ pos + h[x].dist[i + 1] < k
    THEN advanceBefore(h, h[x].next[i + 1], pos + h[x].dist[i + 1], i, k)
    ELSE [x |-> x, pos |-> pos, ok |-> TRUE]

\* outer loop of RemoveByPos, recording update[i] and updatePos[i]
RECURSIVE searchByPos(_, _, _, _, _, _, _)
searchByPos(h, x, pos, i, k, update, updatePos) ==
    IF i < 0
    THEN [x |-> x, pos |-> pos, update |-> update, updatePos |-> updatePos, ok |-> TRUE]
    ELSE LET a == advanceBefore(h, x, pos, i, k)
         IN  IF ~a.ok
             THEN [x |-> a.x, pos |-> a.pos, update |-> update, updatePos |-> updatePos,
                   ok |-> FALSE]
             ELSE searchByPos(h, a.x, a.pos, i - 1, k,
                              [update EXCEPT ![i + 1] = a.x],
                              [updatePos EXCEPT ![i + 1] = a.pos])

\* the range check that lets k < 0 through
removeByPosOutOfRange_nolow(c, k) == k >= c

\* if k < 0 || k >= s.count { return nil }
removeByPosOutOfRange(c, k) == k < 0 \/ k >= c

RemoveByPos(h, c, k) ==
    IF removeByPosOutOfRange(c, k)
    THEN [heap |-> h, count |-> c, node |-> Nil, pos |-> InvalidPos,
          inserted |-> FALSE, ok |-> TRUE]
    ELSE LET s == searchByPos(h, head, 0 - 1, Level(h) - 1, k, makeUpdate(h), makeUpdatePos(h))
         IN  IF ~s.ok THEN panicResult(h, c)
             ELSE LET x == NodeNext(h, s.x)
                      r == unlink(h, x, 0, s.update)
                      h1 == [r.heap EXCEPT
                               ![head] = shrinkLevel(@, adaptLevel(r.heap, Level(r.heap)))]
                  IN  IF ~r.ok THEN panicResult(h, c)
                      ELSE [heap |-> free(h1, x), count |-> c - 1, node |-> x,
                            pos |-> s.pos + 1, inserted |-> FALSE, ok |-> TRUE]

\* ---- the state machine ----
\* ret records the last call: its name, its arguments and what it returned
Result(op, key, value, k, node, pos, inserted) ==
    [op |-> op, key |-> key, value |-> value, k |-> k, node |-> node, pos |-> pos,
     inserted |-> inserted]

\* a level policy without state: each call returns some level of 1..maxLevel
anyLevel == [kind |-> "any"]

\* NewSkipList with WithMaxLevel(maxLevel)
Init ==
    /\ heap = (head :> newNode(dummyKey, dummyValue, 0, maxLevel))
    /\ count = 0
    /\ ret = Result("NewSkipList", 0, 0, 0, Nil, InvalidPos, FALSE)
    /\ panicked = FALSE
    /\ policy = anyLevel

\* what s.randomLevel() can return in Set(key, ...): any level of the policy's
\* range on the insert path; on the override path it is not called (0)
randomLevel(h, key) == IF Get(h, key).node # Nil THEN {0} ELSE Levels

\* s.Set(key, value)
CallSet ==
    /\ ~panicked
    /\ \E key \in Keys, value \in Values :
       \E lvl \in randomLevel(heap, key) :
         \E r \in {Set(heap, count, key, value, lvl)} :
             /\ heap' = r.heap
             /\ count' = r.count
             /\ panicked' = ~r.ok
             /\ ret' = Result("Set", key, value, 0, r.node, r.pos, r.inserted)
             /\ UNCHANGED policy

\* a Get that takes the tower it found out of the list, as Remove does
CallGet_take ==
    /\ ~panicked
    /\ \E key \in Keys :
         \E r \in {Remove(heap, count, key)} :
             /\ heap' = r.heap
             /\ count' = r.count
             /\ panicked' = ~r.ok
             /\ ret' = Result("Get", key, 0, 0, r.node, r.pos, FALSE)
             /\ UNCHANGED policy

CallGet ==
    /\ ~panicked
    /\ \E key \in Keys :
         \E r \in {Get(heap, key)} :
             /\ panicked' = ~r.ok
             /\ ret' = Result("Get", key, 0, 0, r.node, r.pos, FALSE)
             /\ UNCHANGED <<heap, count, policy>>

CallGetByPos ==
    /\ ~panicked
    /\ \E k \in Positions :
         \E r \in {GetByPos(heap, count, k)} :
             /\ panicked' = ~r.ok
             /\ ret' = Result("GetByPos", 0, 0, k, r.node, InvalidPos, FALSE)
             /\ UNCHANGED <<heap, count, policy>>

CallRemove ==
    /\ ~panicked
    /\ \E key \in Keys :
         \E r \in {Remove(heap, count, key)} :
             /\ heap' = r.heap
             /\ count' = r.count
             /\ panicked' = ~r.ok
             /\ ret' = Result("Remove", key, 0, 0, r.node, r.pos, FALSE)
             /\ UNCHANGED policy

CallRemoveByPos ==
    /\ ~panicked
    /\ \E k \in Positions :
         \E r \in {RemoveByPos(heap, count, k)} :
             /\ heap' = r.heap
             /\ count' = r.count
             /\ panicked' = ~r.ok
             /\ ret' = Result("RemoveByPos", 0, 0, k, r.node, InvalidPos, FALSE)
             /\ UNCHANGED policy

\* s.First(): the node comes back in ret.node
CallFirst ==
    /\ ~panicked
    /\ ret' = Result("First", 0, 0, 0, First(heap), InvalidPos, FALSE)
    /\ UNCHANGED <<heap, count, panicked, policy>>

\* s.Size(): the number comes back in ret.k
CallSize ==
    /\ ~panicked
    /\ ret' = Result("Size", 0, 0, Size(count), Nil, InvalidPos, FALSE)
    /\ UNCHANGED <<heap, count, panicked, policy>>

\* s.Level(): the number comes back in ret.k
CallLevel ==
    /\ ~panicked
    /\ ret' = Result("Level", 0, 0, Level(heap), Nil, InvalidPos, FALSE)
    /\ UNCHANGED <<heap, count, panicked, policy>>

\* x.Next() on a node some call handed out and that is still stored; the
\* node's key is recorded in ret.key
CallNext ==
    /\ ~panicked
    /\ ret.node # Nil
    /\ ret.node \in DOMAIN heap
    /\ ret' = Result("Next", heap[ret.node].key, 0, 0, NodeNext(heap, ret.node),
                     InvalidPos, FALSE)
    /\ UNCHANGED <<heap, count, panicked, policy>>

Next ==
    \/ CallSet
    \/ CallGet
    \/ CallGetByPos
    \/ CallRemove
    \/ CallRemoveByPos

Spec == Init /\ [][Next]_vars

\* the same list with its accessors called as well
NextWithAccessors ==
    \/ CallSet
    \/ CallGet
    \/ CallGetByPos
    \/ CallRemove
    \/ CallRemoveByPos
    \/ CallFirst
    \/ CallSize
    \/ CallLevel
    \/ CallNext

SpecWithAccessors == Init /\ [][NextWithAccessors]_vars

\* ---- independent recomputation of ranks by walking First()/Next() ----
\* for x := s.First(); x != nil; x = x.Next(); the walk gives up after more
\* steps than there are nodes (a cycle)
RECURSIVE IterFrom(_, _, _)
IterFrom(h, x, fuel) ==
    IF x = Nil \/ fuel = 0 THEN <<>>
    ELSE <<x>> \o IterFrom(h, NodeNext(h, x), fuel - 1)

Iteration(h) == IterFrom(h, First(h), Cardinality(DOMAIN h) + 1)

Stored(h) ==
    LET it == Iteration(h)
    IN  {it[j] : j \in 1..Len(it)}

StoredKeys(h) == {h[x].key : x \in Stored(h)}

\* 0-based index of x in the iteration; the head has rank -1
RankOf(h, x) ==
    IF x = head THEN 0 - 1
    ELSE LET it == Iteration(h)
         IN  IF \E j \in 1..Len(it) : it[j] = x
             THEN (CHOOSE j \in 1..Len(it) : it[j] = x) - 1
             ELSE 0 - 100

\* C1: distance invariant. For the head and every stored tower x and every
\* level i below x's level, the counter x.dist[i] is the rank difference to
\* the tower x.next[i] points to, or Size() - rank(x) when x.next[i] is nil,
\* and it is at least 1.
C1_DistanceInvariant ==
    \A x \in {head} \cup Stored(heap) :
        \A i \in 1..heap[x].len :
            LET y == heap[x].next[i]
                d == heap[x].dist[i]
            IN  /\ d >= 1
                /\ IF y # Nil
                   THEN d = RankOf(heap, y) - RankOf(heap, x)
                   ELSE d = Size(count) - RankOf(heap, x)

\* the first of two towers was removed; the tower left has both levels and
\* the head's counters were merged down to 1
C1_Witness ==
    /\ ret.op \in {"Remove", "RemoveByPos"}
    /\ ret.node # Nil
    /\ count = 1
    /\ Level(heap) = 2
    /\ heap[head].dist = <<1, 1>>
    /\ heap[First(heap)].key = MaxKey

\* C2: ascending order. The keys visited from First() via Next() are strictly
\* increasing.
C2_AscendingOrder ==
    LET it == Iteration(heap)
    IN  \A j \in 1..(Len(it) - 1) : heap[it[j]].key < heap[it[j + 1]].key

\* a full list whose smallest key was inserted last
C2_Witness ==
    /\ ret.op = "Set"
    /\ ret.inserted
    /\ ret.key = 1
    /\ Len(Iteration(heap)) = MaxKey

\* C3: rank consistency. GetByPos(i) is the i-th tower of the iteration for
\* every i in [0, Size()), and Get(k) of a stored key returns its tower and
\* that tower's index in the iteration.
C3_RankConsistency ==
    LET it == Iteration(heap)
    IN  /\ Len(it) = Size(count)
        /\ \A i \in 0..(Size(count) - 1) :
               GetByPos(heap, count, i) = [node |-> it[i + 1], ok |-> TRUE]
        /\ \A j \in 1..Len(it) :
               LET g == Get(heap, heap[it[j]].key)
               IN  /\ g = [node |-> it[j], pos |-> j - 1, ok |-> TRUE]
                   /\ GetByPos(heap, count, g.pos).node = g.node

\* a lookup by position returned the last tower of a full list in which a
\* level-1 link skips the first tower
C3_Witness ==
    /\ ret.op = "GetByPos"
    /\ ret.k = MaxKey - 1
    /\ count = MaxKey
    /\ ret.node = Iteration(heap)[MaxKey]
    /\ heap[First(heap)].len = 1
    /\ heap[head].dist[2] > 1

\* C4: Set(k, v) on a key that is already stored returns that key's existing
\* rank (its index in ascending order, the number Get(k) returns, within
\* 0..Size()-1) together with inserted = FALSE.
C4_SetStoredReturnsRank ==
    [][(ret'.op = "Set" /\ ret'.key \in StoredKeys(heap)) =>
          /\ ~ret'.inserted
          /\ ret'.pos = Get(heap, ret'.key).pos
          /\ ret'.pos = Cardinality({k \in StoredKeys(heap) : k < ret'.key})
          /\ ret'.pos \in 0..(Size(count) - 1)]_vars

\* C5: Set(k, v) on a key that is not stored returns inserted = TRUE and the
\* number of stored keys below k, increases Size() by exactly 1, and a Get(k)
\* right after it returns the new tower with Value = v and that rank.
C5_SetInserts ==
    [][(ret'.op = "Set" /\ ret'.key \notin StoredKeys(heap)) =>
          /\ ~panicked'
          /\ ret'.inserted
          /\ ret'.pos = Cardinality({k \in StoredKeys(heap) : k < ret'.key})
          /\ Size(count') = Size(count) + 1
          /\ LET g == Get(heap', ret'.key)
             IN  /\ g.node # Nil
                 /\ g.node = ret'.node
                 /\ heap'[g.node].key = ret'.key
                 /\ heap'[g.node].Value = ret'.value
                 /\ g.pos = ret'.pos]_vars

\* a key was inserted behind a stored key, above the height the list had
C5_Witness ==
    /\ ret.op = "Set"
    /\ ret.inserted
    /\ ret.pos = 1
    /\ count = 2
    /\ heap[ret.node].len = 2
    /\ heap[First(heap)].len = 1

\* C6: override idempotence. A Set on a stored key leaves Size(), the rank
\* Get(k) reports, every forward link, every distance counter and the height
\* unchanged; the only field it changes is that tower's Value, which is the
\* new value afterwards.
C6_OverrideIdempotence ==
    [][(ret'.op = "Set" /\ ret'.key \in StoredKeys(heap)) =>
          LET x == Get(heap, ret'.key).node
          IN  /\ ~panicked'
              /\ Size(count') = Size(count)
              /\ Level(heap') = Level(heap)
              /\ Get(heap', ret'.key) = Get(heap, ret'.key)
              /\ DOMAIN heap' = DOMAIN heap
              /\ \A n \in DOMAIN heap :
                     /\ heap'[n].key = heap[n].key
                     /\ heap'[n].next = heap[n].next
                     /\ heap'[n].dist = heap[n].dist
                     /\ heap'[n].len = heap[n].len
                     /\ n # x => heap'[n].Value = heap[n].Value
              /\ heap'[x].Value = ret'.value]_vars

\* the last key of a full list was overridden with the second value
C6_Witness ==
    /\ ret.op = "Set"
    /\ ~ret.inserted
    /\ count = MaxKey
    /\ ret.key = MaxKey
    /\ ret.value = 2
    /\ ret.node # Nil
    /\ heap[ret.node].Value = 2

\* C7: Remove(k) on a stored key returns the tower with key k and the rank
\* the key had right before the removal (what Get(k) returned before);
\* afterwards Get(k) returns (nil, InvalidPos) and Size() is smaller by 1.
C7_RemoveStored ==
    [][(ret'.op = "Remove" /\ ret'.key \in StoredKeys(heap)) =>
          /\ ~panicked'
          /\ ret'.node # Nil
          /\ ret'.node = Get(heap, ret'.key).node
          /\ heap[ret'.node].key = ret'.key
          /\ ret'.pos = Get(heap, ret'.key).pos
          /\ ret'.pos = RankOf(heap, ret'.node)
          /\ Get(heap', ret'.key) = [node |-> Nil, pos |-> InvalidPos, ok |-> TRUE]
          /\ Size(count') = Size(count) - 1]_vars

\* the last key of a full list was removed by key
C7_Witness ==
    /\ ret.op = "Remove"
    /\ ret.node # Nil
    /\ ret.key = MaxKey
    /\ ret.pos = MaxKey - 1
    /\ count = MaxKey - 1

\* C8: RemoveByPos(k) with 0 <= k < Size() removes and returns the tower that
\* GetByPos(k) returned right before; afterwards Get of that tower's key
\* returns nil and Size() is smaller by 1.
C8_RemoveByPosInRange ==
    [][(ret'.op = "RemoveByPos" /\ ret'.k >= 0 /\ ret'.k < Size(count)) =>
          /\ ~panicked'
          /\ ret'.node # Nil
          /\ ret'.node = GetByPos(heap, count, ret'.k).node
          /\ ret'.node = Iteration(heap)[ret'.k + 1]
          /\ Get(heap', heap[ret'.node].key) = [node |-> Nil, pos |-> InvalidPos, ok |-> TRUE]
          /\ heap[ret'.node].key \notin StoredKeys(heap')
          /\ Size(count') = Size(count) - 1]_vars

\* the last position of a full list was removed
C8_Witness ==
    /\ ret.op = "RemoveByPos"
    /\ ret.node # Nil
    /\ ret.k = MaxKey - 1
    /\ count = MaxKey - 1

\* C9: not-found results are sentinels, never failures. GetByPos(k) and
\* RemoveByPos(k) return nil for every k < 0 and every k >= Size(); Get(key)
\* and Remove(key) return (nil, InvalidPos) for every key not stored; none of
\* them panics, on the empty list included.
C9_NotFoundSentinels ==
    /\ ~panicked
    /\ \A k \in Positions :
           (k < 0 \/ k >= Size(count)) =>
               /\ GetByPos(heap, count, k) = [node |-> Nil, ok |-> TRUE]
               /\ RemoveByPos(heap, count, k).node = Nil
               /\ RemoveByPos(heap, count, k).ok
    /\ \A key \in Keys \ StoredKeys(heap) :
           /\ Get(heap, key) = [node |-> Nil, pos |-> InvalidPos, ok |-> TRUE]
           /\ Remove(heap, count, key).node = Nil
           /\ Remove(heap, count, key).pos = InvalidPos
           /\ Remove(heap, count, key).ok

\* a removal by position came back empty-handed on an empty list of height 0
C9_Witness ==
    /\ ret.op = "RemoveByPos"
    /\ ret.node = Nil
    /\ count = 0
    /\ Level(heap) = 0

\* C10: a failed removal is a no-op. Remove of a key that is not stored and
\* RemoveByPos(k) with k outside [0, Size()) leave the count, the height and
\* every tower's key, value, links and counters unchanged.
C10_FailedRemovalNoOp ==
    [][((ret'.op = "Remove" /\ ret'.key \notin StoredKeys(heap))
        \/ (ret'.op = "RemoveByPos" /\ (ret'.k < 0 \/ ret'.k >= Size(count)))) =>
          /\ ~panicked'
          /\ heap' = heap
          /\ count' = count]_vars

\* a removal by a negative position failed on a full list
C10_Witness ==
    /\ ret.op = "RemoveByPos"
    /\ ret.k < 0
    /\ ret.node = Nil
    /\ count = MaxKey

\* ---- the sorted map the list implements ----
\* the (key, Value) pairs an iteration with First()/Next() visits, in order
Listing(h) ==
    LET it == Iteration(h)
    IN  [j \in 1..Len(it) |-> <<h[it[j]].key, h[it[j]].Value>>]

\* the abstract map (a set of key/value pairs) with this listing
AbsOf(L) == {L[j] : j \in 1..Len(L)}

\* insert-or-overwrite
AbsSet(M, k, v) == {e \in M : e[1] # k} \cup {<<k, v>>}

\* delete the key
AbsRemove(M, k) == {e \in M : e[1] # k}

\* delete the k-th smallest key (0-based), if there is one
AbsRemoveByPos(M, k) == {e \in M : Cardinality({f \in M : f[1] < e[1]}) # k}

\* the ascending listing of an abstract map
RECURSIVE Asc(_)
Asc(M) ==
    IF M = {} THEN <<>>
    ELSE LET m == CHOOSE e \in M : \A f \in M : e[1] <= f[1]
         IN  <<m>> \o Asc(M \ {m})

\* the abstract map after the operation recorded in r was applied to M
AbsApply(M, r) ==
    IF r.op = "Set" THEN AbsSet(M, r.key, r.value)
    ELSE IF r.op = "Remove" THEN AbsRemove(M, r.key)
    ELSE IF r.op = "RemoveByPos" THEN AbsRemoveByPos(M, r.k)
    ELSE M

\* C11: sorted-map refinement. The list starts as the empty map, and every
\* operation takes a list whose iteration is the ascending listing of a map M
\* to a list whose iteration is the ascending listing of M after the same
\* abstract operation (Set = insert-or-overwrite, Remove = delete the key,
\* RemoveByPos(k) = delete the k-th smallest key), with Size() the
\* cardinality of that map.
C11_SortedMapRefinement ==
    /\ Listing(heap) = <<>> /\ Size(count) = 0
    /\ [][\E M \in {AbsApply(AbsOf(Listing(heap)), ret')} :
              /\ Listing(heap') = Asc(M)
              /\ Size(count') = Cardinality(M)]_vars

\* a full list lost the tower in its middle (or its first of two) by position
\* and the remaining pairs still carry the largest value
C11_Witness ==
    /\ ret.op = "RemoveByPos"
    /\ ret.node # Nil
    /\ ret.k = MaxKey - 2
    /\ count = MaxKey - 1
    /\ \E j \in 1..Len(Listing(heap)) : Listing(heap)[j][2] = MaxVal

\* the largest level among the stored towers, 0 when there are none
MaxStoredLevel(h) ==
    IF Stored(h) = {} THEN 0
    ELSE CHOOSE l \in {h[x].len : x \in Stored(h)} : \A y \in Stored(h) : h[y].len <= l

\* C12: height invariant. Level() is the largest level among the stored
\* towers, and 0 when the list is empty. The height grows only in a Set that
\* inserts a tower whose level exceeds it (and then to that level), and it
\* shrinks only in a Remove/RemoveByPos that removes the only tower reaching
\* the top level.
C12_HeightInvariant ==
    /\ [](/\ Level(heap) = MaxStoredLevel(heap)
          /\ (Size(count) = 0 => Level(heap) = 0))
    /\ [][/\ Level(heap') > Level(heap) =>
               /\ ret'.op = "Set"
               /\ ret'.key \notin StoredKeys(heap)
               /\ ret'.inserted
               /\ heap'[ret'.node].len = Level(heap')
          /\ Level(heap') < Level(heap) =>
               /\ ret'.op \in {"Remove", "RemoveByPos"}
               /\ ret'.node \in Stored(heap)
               /\ heap[ret'.node].len = Level(heap)
               /\ \A y \in Stored(heap) \ {ret'.node} : heap[y].len < Level(heap)]_vars

\* the taller of two towers was removed by key and the height fell to the
\* level of the one left; the head's slot above still holds its old counter
C12_Witness ==
    /\ ret.op = "Remove"
    /\ ret.node # Nil
    /\ count = MaxKey - 1
    /\ Level(heap) = 1
    /\ heap[head].dist[2] > 0

\* ---- the playback scenario of skiplist_test.go ----
MaxLevel == 512
DefaultMaxLevel == 64

\* example1 / example2: key, forced level, final position
example1 ==
    << [key |-> 3, level |-> 1, pos |-> 0], [key |-> 6, level |-> 4, pos |-> 1],
       [key |-> 7, level |-> 1, pos |-> 2], [key |-> 9, level |-> 2, pos |-> 3],
       [key |-> 12, level |-> 1, pos |-> 4], [key |-> 17, level |-> 2, pos |-> 5],
       [key |-> 19, level |-> 1, pos |-> 6], [key |-> 21, level |-> 1, pos |-> 7],
       [key |-> 25, level |-> 3, pos |-> 8], [key |-> 26, level |-> 1, pos |-> 9] >>

\* key := 25; idx := 8
removedKey == 25
removedIdx == 8
\* a key not contained in the data
absentKey == 1000

\* createPlayBackLevelFunc(data): pos := -1, with len(data) levels to serve
playBackPolicy(n) == [kind |-> "playback", pos |-> 0 - 1, len |-> n]

\* log.Fatal when pos >= len(data), after pos++
playBackExhausted(pl) == pl.pos + 1 >= pl.len

\* the policy after n calls
playBackAfter(pl, n) == [pl EXCEPT !.pos = @ + n]

\* the keys of the towers in the heap
liveKeys(h) == {h[x].key : x \in DOMAIN h \ {head}}

\* NewSkipList(WithLevelFunc(createPlayBackLevelFunc(data))): maxLevel is the
\* default
ScenarioInit ==
    /\ heap = (head :> newNode(dummyKey, dummyValue, 0, DefaultMaxLevel))
    /\ count = 0
    /\ ret = Result("NewSkipList", 0, 0, 0, Nil, InvalidPos, FALSE)
    /\ panicked = FALSE
    /\ policy = playBackPolicy(Len(example1))

\* for i, x := range data { s.Set(x.key, x.pos) } with data in any order: the
\* next entry is one whose key was not set yet, and the playback returns that
\* entry's level
ScenarioSet ==
    /\ ~panicked
    /\ ~playBackExhausted(policy)
    /\ \E j \in 1..Len(example1) :
         /\ example1[j].key \notin liveKeys(heap)
         /\ \E r \in {Set(heap, count, example1[j].key, example1[j].pos, example1[j].level)} :
              /\ heap' = r.heap
              /\ count' = r.count
              /\ panicked' = ~r.ok
              /\ ret' = Result("Set", example1[j].key, example1[j].pos, 0, r.node, r.pos,
                               r.inserted)
              /\ policy' = playBackAfter(policy, r.draws)

\* after the loop: s.Get(x.key) for every entry, and s.Get(1000)
ScenarioGet ==
    /\ ~panicked
    /\ playBackExhausted(policy)
    /\ \E key \in {example1[j].key : j \in 1..Len(example1)} \cup {absentKey} :
         \E r \in {Get(heap, key)} :
             /\ panicked' = ~r.ok
             /\ ret' = Result("Get", key, 0, 0, r.node, r.pos, FALSE)
             /\ UNCHANGED <<heap, count, policy>>

\* x := s.RemoveByPos(idx) on the full list; x.Key() is recorded in ret.key
ScenarioRemoveByPos ==
    /\ ~panicked
    /\ playBackExhausted(policy)
    /\ count = Len(example1)
    /\ \E r \in {RemoveByPos(heap, count, removedIdx)} :
         /\ heap' = r.heap
         /\ count' = r.count
         /\ panicked' = ~r.ok
         /\ ret' = Result("RemoveByPos", IF r.node = Nil THEN dummyKey ELSE heap[r.node].key,
                          0, removedIdx, r.node, InvalidPos, FALSE)
         /\ UNCHANGED policy

ScenarioNext ==
    \/ ScenarioSet
    \/ ScenarioGet
    \/ ScenarioRemoveByPos

ScenarioSpec == ScenarioInit /\ [][ScenarioNext]_vars

\* C13: the concrete scenario. Once the ten keys 3,6,7,9,12,17,19,21,25,26
\* are set with the forced levels 1,4,1,2,1,2,1,1,3,1, in whatever order,
\* Get of the i-th key returns its tower and rank i, and GetByPos(i) returns
\* the tower of the i-th key. RemoveByPos(8) then returns the tower with key
\* 25, Get(25) returns nil afterwards and Size() is 9.
C13_Scenario ==
    /\ (Size(count) = Len(example1)) =>
          \A j \in 1..Len(example1) :
              LET g == Get(heap, example1[j].key)
                  n == GetByPos(heap, count, example1[j].pos)
              IN  /\ g.ok /\ g.node # Nil
                  /\ heap[g.node].key = example1[j].key
                  /\ g.pos = j - 1
                  /\ example1[j].pos = j - 1
                  /\ n.ok /\ n.node # Nil
                  /\ heap[n.node].key = example1[j].key
                  /\ heap[g.node].len = example1[j].level
    /\ (ret.op = "RemoveByPos") =>
          /\ ~panicked
          /\ ret.node # Nil
          /\ ret.key = removedKey
          /\ Get(heap, removedKey).node = Nil
          /\ Size(count) = Len(example1) - 1

\* the tower at index 8 was removed from the full list
C13_Witness ==
    /\ ret.op = "RemoveByPos"
    /\ ret.k = removedIdx
    /\ ret.node # Nil
    /\ policy.pos = Len(example1) - 1
    /\ Level(heap) = 4

\* C14: read-only operations. Get, GetByPos, First, Size, Level and Node.Next
\* leave the count, the height and every tower's key, value, links and
\* counters as they were, whether or not the lookup finds something.
C14_ReadOnly ==
    [][ret'.op \in {"Get", "GetByPos", "First", "Size", "Level", "Next"} =>
          /\ heap' = heap
          /\ count' = count]_vars

\* a Get that found nothing in a list that is not empty
C14_Witness ==
    /\ ret.op = "Get"
    /\ ret.node = Nil
    /\ ret.pos = InvalidPos
    /\ count = MaxKey - 1
    /\ Level(heap) = 2

\* ---- defaultLevelFunc, one loop test per step ----
\* the largest maxLevel a call is started with
MaxPolicyLevel == 10

\* the loop bound taken one too far
belowMax_le(level, m) == level <= m

\* level < maxLevel
belowMax(level, m) == level < m

\* a call defaultLevelFunc(p, m) at its loop head: level := 1; draws lists
\* the outcomes of rand.Float64() < p so far, incs counts level++
levelFuncCall(m) ==
    [kind |-> "default", pc |-> "loop", maxLevel |-> m, level |-> 1, incs |-> 0,
     draws |-> <<>>]

LevelFuncInit ==
    /\ heap = (head :> newNode(dummyKey, dummyValue, 0, maxLevel))
    /\ count = 0
    /\ ret = Result("NewSkipList", 0, 0, 0, Nil, InvalidPos, FALSE)
    /\ panicked = FALSE
    /\ \E m \in 1..MaxPolicyLevel : policy = levelFuncCall(m)

\* for rand.Float64() < p && level < maxLevel { level++ }; return level
\* the draw u is made at every test, before level is compared
LevelFuncTest ==
    /\ policy.pc = "loop"
    /\ \E u \in BOOLEAN :
         policy' = IF u /\ belowMax(policy.level, policy.maxLevel)
                   THEN [policy EXCEPT !.level = @ + 1, !.incs = @ + 1,
                                       !.draws = Append(@, u)]
                   ELSE [policy EXCEPT !.pc = "return", !.draws = Append(@, u)]
    /\ UNCHANGED <<heap, count, ret, panicked>>

LevelFuncNext == LevelFuncTest

LevelFuncSpec == LevelFuncInit /\ [][LevelFuncNext]_vars

\* C15: default level policy. For every maxLevel >= 1 and every sequence of
\* draw outcomes the level stays within 1..maxLevel, at most maxLevel - 1
\* increments and at most maxLevel loop tests are made (so the call returns),
\* and maxLevel is returned only when the first maxLevel - 1 draws succeeded.
C15_DefaultLevelPolicy ==
    /\ policy.maxLevel >= 1
    /\ policy.level >= 1 /\ policy.level <= policy.maxLevel
    /\ policy.incs <= policy.maxLevel - 1
    /\ policy.level = 1 + policy.incs
    /\ Len(policy.draws) <= policy.maxLevel
    /\ (policy.pc = "loop") => Len(policy.draws) = policy.incs
    /\ (policy.pc = "return" /\ policy.level = policy.maxLevel) =>
          /\ Len(policy.draws) >= policy.maxLevel - 1
          /\ \A j \in 1..(policy.maxLevel - 1) : policy.draws[j]

\* the largest maxLevel was returned although the last draw failed
C15_Witness ==
    /\ policy.pc = "return"
    /\ policy.maxLevel = MaxPolicyLevel
    /\ policy.level = policy.maxLevel
    /\ Len(policy.draws) = policy.maxLevel
    /\ ~policy.draws[policy.maxLevel]

\* ---- construction: NewSkipList(WithMaxLevel(m)) and NewSkipList() ----
\* how far below 1 and above MaxLevel the requested values reach
RequestMargin == 3
Requests == (1 - RequestMargin)..(MaxLevel + RequestMargin)

\* no SkipList exists
NoList == << >>

\* the lower limit taken one too low
maxLevelOutOfRange_zero(m) == m < 0 \/ m > MaxLevel

\* if maxLevel < 1 || maxLevel > MaxLevel { log.Panic(...) }
maxLevelOutOfRange(m) == m < 1 \/ m > MaxLevel

\* s.head = newNode(dummyKey, dummyValue, 0, s.maxLevel)
NewSkipList(m) == (head :> newNode(dummyKey, dummyValue, 0, m))

ConstructInit ==
    /\ heap = NoList
    /\ count = 0
    /\ ret = Result("none", 0, 0, 0, Nil, InvalidPos, FALSE)
    /\ panicked = FALSE
    /\ policy = anyLevel

\* NewSkipList(WithMaxLevel(m)): the option is built, and may panic, before
\* NewSkipList is entered; the requested value is recorded in ret.k
CallNewWithMaxLevel ==
    /\ heap = NoList
    /\ ~panicked
    /\ \E m \in Requests :
         IF maxLevelOutOfRange(m)
         THEN /\ panicked' = TRUE
              /\ ret' = Result("WithMaxLevel", 0, 0, m, Nil, InvalidPos, FALSE)
              /\ UNCHANGED <<heap, count, policy>>
         ELSE /\ heap' = NewSkipList(m)
              /\ ret' = Result("NewSkipList", 0, 0, m, head, InvalidPos, FALSE)
              /\ UNCHANGED <<count, panicked, policy>>

\* NewSkipList() without options: maxLevel: DefaultMaxLevel
CallNewDefault ==
    /\ heap = NoList
    /\ ~panicked
    /\ heap' = NewSkipList(DefaultMaxLevel)
    /\ ret' = Result("NewSkipList()", 0, 0, 0, head, InvalidPos, FALSE)
    /\ UNCHANGED <<count, panicked, policy>>

ConstructNext ==
    \/ CallNewWithMaxLevel
    \/ CallNewDefault

ConstructSpec == ConstructInit /\ [][ConstructNext]_vars

\* C16: configuration errors. A requested maxLevel below 1 or above 512
\* panics and no list exists afterwards; a list that exists has the maxLevel
\* that was requested, unchanged, within 1..512, and 64 when no option was
\* given.
C16_ConfigurationErrors ==
    /\ (ret.op \in {"WithMaxLevel", "NewSkipList"} /\ (ret.k < 1 \/ ret.k > 512)) =>
          /\ panicked
          /\ heap = NoList
    /\ (heap # NoList) =>
          /\ ~panicked
          /\ sMaxLevel(heap) >= 1 /\ sMaxLevel(heap) <= 512
          /\ (ret.op = "NewSkipList") => sMaxLevel(heap) = ret.k
          /\ (ret.op = "NewSkipList()") => sMaxLevel(heap) = 64
          /\ Level(heap) = 0 /\ Size(count) = 0
    /\ panicked => heap = NoList

\* the largest admissible maxLevel was requested and the list was built
C16_Witness ==
    /\ heap # NoList
    /\ ret.op = "NewSkipList"
    /\ ret.k = MaxLevel
    /\ sMaxLevel(heap) = MaxLevel

\* ---- what the insert path of Set worked with, per level (1-based) ----
\* update[i] after the head was grown: the head on the new levels
insertUpdate(h, s, i) == IF i <= Level(h) THEN s.update[i] ELSE head

\* updatePos[i] after the head was grown: -1 on the new levels
insertUpdatePos(h, s, i) == IF i <= Level(h) THEN s.updatePos[i] ELSE 0 - 1

\* update[i].dist[i] before the splice: s.Size() + 1 on the new levels
insertPrevDist(h, c, s, i) ==
    IF i <= Level(h) THEN h[s.update[i]].dist[i] ELSE Size(c) + 1

\* C17 as stated: in every inserting Set and for every level of the new tower,
\* with delta = insertionRank - updatePos[level], insertionRank being the
\* rank Set returns, delta >= 1, the new tower's distance is update[level]'s
\* previous distance minus delta, and update[level]'s distance is delta + 1.
C17_DeltaFromReturnedRank ==
    [][(ret'.op = "Set" /\ ret'.inserted) =>
          \E s \in {search(heap, head, 0 - 1, Level(heap) - 1, ret'.key,
                           makeUpdate(heap), makeUpdatePos(heap))} :
            \A i \in 1..heap'[ret'.node].len :
              LET u == insertUpdate(heap, s, i)
                  delta == ret'.pos - insertUpdatePos(heap, s, i)
              IN  /\ delta >= 1
                  /\ heap'[ret'.node].dist[i] = insertPrevDist(heap, count, s, i) - delta
                  /\ heap'[u].dist[i] = delta + 1]_vars

\* C17 amended: delta = (insertionRank - 1) - updatePos[level], the rank of
\* the new tower's level-0 predecessor minus updatePos[level]; delta >= 0,
\* the new tower's distance is update[level]'s previous distance minus delta,
\* and update[level]'s distance is delta + 1.
C17_DeltaFromPredecessorRank ==
    [][(ret'.op = "Set" /\ ret'.inserted) =>
          \E s \in {search(heap, head, 0 - 1, Level(heap) - 1, ret'.key,
                           makeUpdate(heap), makeUpdatePos(heap))} :
            \A i \in 1..heap'[ret'.node].len :
              LET u == insertUpdate(heap, s, i)
                  delta == (ret'.pos - 1) - insertUpdatePos(heap, s, i)
              IN  /\ delta >= 0
                  /\ s.pos = ret'.pos - 1
                  /\ heap'[ret'.node].dist[i] = insertPrevDist(heap, count, s, i) - delta
                  /\ heap'[u].dist[i] = delta + 1]_vars

\* a tower of two levels was inserted behind a tower of one level: at level 0
\* delta is 0, at level 1 it is 1
C17_Witness ==
    /\ ret.op = "Set"
    /\ ret.inserted
    /\ ret.pos = 1
    /\ count = 2
    /\ heap[ret.node].len = 2
    /\ heap[First(heap)].len = 1
    /\ heap[head].dist = <<1, 2>>

\* ---- the level chains, walked link by link ----
\* the towers reached from x over the links of level i (1-based)
RECURSIVE ChainFrom(_, _, _, _)
ChainFrom(h, x, i, fuel) ==
    IF x = Nil \/ fuel = 0 THEN {}
    ELSE IF i > Len(h[x].next) THEN {x}
    ELSE {x} \cup ChainFrom(h, h[x].next[i], i, fuel - 1)

\* the towers on the level-i chain, without the head
LevelChain(h, i) == ChainFrom(h, h[head].next[i], i, Cardinality(DOMAIN h) + 1)

\* the tower of the largest rank in S, the head when S is empty
LastOf(h, S) ==
    IF S = {} THEN head
    ELSE CHOOSE x \in S : \A y \in S : RankOf(h, y) <= RankOf(h, x)

\* C18: search bookkeeping. After the descent of Set and Remove for any
\* target key, update[i] is, on every active level i, the last tower of the
\* level-i chain with a key strictly less than the target (the head if there
\* is none) and updatePos[i] is its rank (-1 for the head). After the descent
\* of RemoveByPos(k), 0 <= k < Size(), update[i] is the last tower of the
\* level-i chain with rank < k, updatePos[i] is its rank, and the cursor
\* stands on the tower of rank k - 1.
C18_SearchBookkeeping ==
    /\ \A key \in Keys :
         LET s == search(heap, head, 0 - 1, Level(heap) - 1, key,
                         makeUpdate(heap), makeUpdatePos(heap))
         IN  /\ s.ok
             /\ \A i \in 1..Level(heap) :
                  LET last == LastOf(heap, {x \in LevelChain(heap, i) : heap[x].key < key})
                  IN  /\ s.update[i] = last
                      /\ s.updatePos[i] = RankOf(heap, last)
    /\ \A k \in 0..(Size(count) - 1) :
         LET s == searchByPos(heap, head, 0 - 1, Level(heap) - 1, k,
                              makeUpdate(heap), makeUpdatePos(heap))
         IN  /\ s.ok
             /\ \A i \in 1..Level(heap) :
                  LET last == LastOf(heap, {x \in LevelChain(heap, i) : RankOf(heap, x) < k})
                  IN  /\ s.update[i] = last
                      /\ s.updatePos[i] = RankOf(heap, last)
             /\ RankOf(heap, s.x) = k - 1
             /\ s.pos = k - 1

\* a full list in which the descent for the largest key ends with the head
\* as predecessor on level 1 and the tower before the key on level 0
C18_Witness ==
    /\ count = MaxKey
    /\ Level(heap) = 2
    /\ LET s == search(heap, head, 0 - 1, Level(heap) - 1, MaxKey,
                       makeUpdate(heap), makeUpdatePos(heap))
       IN  /\ s.update[2] = head
           /\ s.update[1] # head
           /\ s.updatePos[1] = MaxKey - 2
           /\ s.updatePos[2] = 0 - 1

\* ---- what a mutating call may change in a tower that survives it ----
\* slot i (1-based) of tower n is as it was
SlotKept(h1, h2, n, i) ==
    /\ h2[n].next[i] = h1[n].next[i]
    /\ h2[n].dist[i] = h1[n].dist[i]

\* the towers that exist before and after, the head included
Surviving(h1, h2) == DOMAIN h1 \cap DOMAIN h2

\* key, value and capacity of every surviving tower are as they were, and
\* so is the level of every one but the head
TowersKept(h1, h2) ==
    \A n \in Surviving(h1, h2) :
        /\ h2[n].key = h1[n].key
        /\ h2[n].Value = h1[n].Value
        /\ DOMAIN h2[n].next = DOMAIN h1[n].next
        /\ DOMAIN h2[n].dist = DOMAIN h1[n].dist
        /\ (n # head => h2[n].len = h1[n].len)

\* C19: locality of mutation. An inserting Set, a Remove and a RemoveByPos that
\* remove a tower change, among the towers that exist before and after, only
\* slot i of the search predecessor update[i] on each active level i: where
\* the inserted/removed tower takes part, the link is spliced to the new
\* tower or merged past the removed one (the counters merged on removal);
\* where it does not, the link stays and the counter is one more (insert) or
\* one less (remove). Apart from the head's level nothing else of a
\* surviving tower changes.
C19_LocalityOfMutation ==
    [][/\ (ret'.op = "Set" /\ ret'.inserted) =>
            \E s \in {search(heap, head, 0 - 1, Level(heap) - 1, ret'.key,
                             makeUpdate(heap), makeUpdatePos(heap))} :
              /\ TowersKept(heap, heap')
              /\ ret'.node \notin DOMAIN heap
              /\ \A n \in Surviving(heap, heap') : \A i \in DOMAIN heap[n].next :
                   IF i <= Level(heap') /\ n = insertUpdate(heap, s, i)
                   THEN IF i <= heap'[ret'.node].len
                        THEN heap'[n].next[i] = ret'.node
                        ELSE /\ heap'[n].next[i] = heap[n].next[i]
                             /\ heap'[n].dist[i] = heap[n].dist[i] + 1
                   ELSE SlotKept(heap, heap', n, i)
       /\ (ret'.op \in {"Remove", "RemoveByPos"} /\ ret'.node # Nil) =>
            \E s \in {IF ret'.op = "Remove"
                      THEN search(heap, head, 0 - 1, Level(heap) - 1, ret'.key,
                                  makeUpdate(heap), makeUpdatePos(heap))
                      ELSE searchByPos(heap, head, 0 - 1, Level(heap) - 1, ret'.k,
                                       makeUpdate(heap), makeUpdatePos(heap))} :
              /\ TowersKept(heap, heap')
              /\ Surviving(heap, heap') = DOMAIN heap \ {ret'.node}
              /\ \A n \in Surviving(heap, heap') : \A i \in DOMAIN heap[n].next :
                   IF i <= Level(heap) /\ n = s.update[i]
                   THEN IF i <= heap[ret'.node].len
                        THEN /\ heap'[n].next[i] = heap[ret'.node].next[i]
                             /\ heap'[n].dist[i] =
                                  heap[n].dist[i] + heap[ret'.node].dist[i] - 1
                        ELSE /\ heap'[n].next[i] = heap[n].next[i]
                             /\ heap'[n].dist[i] = heap[n].dist[i] - 1
                   ELSE SlotKept(heap, heap', n, i)]_vars

\* the first of two towers was removed by its key; the tower left is taller,
\* so the head's counter above the removed tower's level went down by one
C19_Witness ==
    /\ ret.op = "Remove"
    /\ ret.node # Nil
    /\ ret.key = 1
    /\ count = 1
    /\ Level(heap) = 2
    /\ heap[First(heap)].key = 2
    /\ heap[head].dist = <<1, 1>>

\* ---- the list with a playback level policy ----
\* len(data) of the playback policy: one level per key of the model
PlaybackLen == MaxKey

PlaybackInit ==
    /\ heap = (head :> newNode(dummyKey, dummyValue, 0, maxLevel))
    /\ count = 0
    /\ ret = Result("NewSkipList", 0, 0, 0, Nil, InvalidPos, FALSE)
    /\ panicked = FALSE
    /\ policy = playBackPolicy(PlaybackLen)

\* s.Set(key, value) with the playback policy: each s.randomLevel() call the
\* Set makes is pos++ in the closure; log.Fatal ends the process when the
\* data is used up, before Set has changed anything. data[pos].level is any
\* level.
PlaySet ==
    /\ ~panicked
    /\ \E key \in Keys, value \in Values :
       \E lvl \in randomLevel(heap, key) :
         \E r \in {Set(heap, count, key, value, lvl)} :
             /\ policy' = playBackAfter(policy, r.draws)
             /\ IF r.draws > 0 /\ playBackExhausted(policy)
                THEN /\ panicked' = TRUE
                     /\ ret' = Result("Set", key, value, 0, Nil, InvalidPos, FALSE)
                     /\ UNCHANGED <<heap, count>>
                ELSE /\ heap' = r.heap
                     /\ count' = r.count
                     /\ panicked' = ~r.ok
                     /\ ret' = Result("Set", key, value, 0, r.node, r.pos, r.inserted)

PlaybackNext ==
    \/ PlaySet
    \/ CallGet
    \/ CallGetByPos
    \/ CallRemove
    \/ CallRemoveByPos

PlaybackSpec == PlaybackInit /\ [][PlaybackNext]_vars

\* C20: the level policy is consulted exactly once by every Set of a key that
\* is not stored and never by a Set of a stored key, Get, GetByPos, Remove or
\* RemoveByPos. So a playback policy with m levels serves the first m
\* insertions, whatever else is called in between, and runs out exactly at
\* insertion m + 1.
C20_PolicyConsultedOncePerInsert ==
    [][\E inserting \in {ret'.op = "Set" /\ ret'.key \notin StoredKeys(heap)} :
          /\ policy'.pos = policy.pos + (IF inserting THEN 1 ELSE 0)
          /\ inserting => (panicked' <=> policy.pos + 1 >= policy.len)
          /\ (inserting /\ ~panicked') =>
                 /\ ret'.inserted
                 /\ Size(count') = Size(count) + 1
                 /\ ret'.key \in StoredKeys(heap')
          /\ ~inserting => ~panicked']_vars

\* the last level of the playback was served to an insertion that followed a
\* removal
C20_Witness ==
    /\ ~panicked
    /\ ret.op = "Set"
    /\ ret.inserted
    /\ policy.pos = policy.len - 1
    /\ count = MaxKey - 1

\* ---- the loops and the chains they run along ----
\* the towers met from x over the links of level i (1-based), in order; the
\* walk gives up when fuel is used up, and it stops at a tower that is not
\* live or has no slot i
RECURSIVE ChainSeqFrom(_, _, _, _)
ChainSeqFrom(h, x, i, fuel) ==
    IF x = Nil \/ fuel = 0 THEN <<>>
    ELSE IF x \notin DOMAIN h THEN <<x>>
    ELSE IF i > Len(h[x].next) THEN <<x>>
    ELSE <<x>> \o ChainSeqFrom(h, h[x].next[i], i, fuel - 1)

\* the level-i chain from the head, the head left out
ChainSeq(h, i) == ChainSeqFrom(h, h[head].next[i], i, Cardinality(DOMAIN h) + 1)

\* no tower occurs twice in the sequence, and the head not at all
Acyclic(c) ==
    /\ \A j, k \in 1..Len(c) : c[j] = c[k] => j = k
    /\ \A j \in 1..Len(c) : c[j] # head

\* the chain ends in nil after at most n towers
EndsWithin(h, c, i, n) ==
    /\ Len(c) <= n
    /\ (Len(c) > 0) =>
          /\ c[Len(c)] \in DOMAIN h
          /\ i <= Len(h[c[Len(c)]].next)
          /\ h[c[Len(c)]].next[i] = Nil

\* C21: every operation terminates. In every reachable state each level's
\* chain from the head is acyclic and ends in nil after at most Size()
\* towers; the descents of Set, Get and Remove (any key) and of GetByPos and
\* RemoveByPos (any k in range) end without a panic having passed at most
\* Size() towers; the head-shrink loop ends within Level() steps; and the
\* First()/Next() iteration ends after exactly Size() steps.
C21_Termination ==
    /\ \A i \in 1..Level(heap) :
         LET c == ChainSeq(heap, i)
         IN  Acyclic(c) /\ EndsWithin(heap, c, i, Size(count))
    /\ \A key \in Keys :
         LET s == search(heap, head, 0 - 1, Level(heap) - 1, key,
                         makeUpdate(heap), makeUpdatePos(heap))
         IN  s.ok /\ s.pos >= 0 - 1 /\ s.pos + 1 <= Size(count)
    /\ \A k \in 0..(Size(count) - 1) :
         LET d == descendByPos(heap, head, 0 - 1, Level(heap) - 1, k)
             s == searchByPos(heap, head, 0 - 1, Level(heap) - 1, k,
                              makeUpdate(heap), makeUpdatePos(heap))
         IN  /\ d.ok /\ d.pos >= 0 - 1 /\ d.pos + 1 <= Size(count)
             /\ s.ok /\ s.pos >= 0 - 1 /\ s.pos + 1 <= Size(count)
    /\ adaptLevel(heap, Level(heap)) \in 0..Level(heap)
    /\ LET it == Iteration(heap)
       IN  /\ Len(it) = Size(count)
           /\ Acyclic(it)
           /\ (Len(it) > 0) => NodeNext(heap, it[Len(it)]) = Nil

\* a full list of height 2 whose upper chain is shorter than its lower one
C21_Witness ==
    /\ count = MaxKey
    /\ Level(heap) = 2
    /\ Len(ChainSeq(heap, 1)) = MaxKey
    /\ Len(ChainSeq(heap, 2)) = 1
    /\ ret.op = "GetByPos"
    /\ ret.node # Nil

\* the towers of the sequence c that have a slot i, in the order of c
WithLevelAbove(h, c, i) == SelectSeq(c, LAMBDA x : x \in DOMAIN h /\ h[x].len >= i)

\* C22: level-chain structure. On every level i below Level() the chain from
\* the head visits exactly the stored towers whose level is greater than i,
\* in ascending key order; each chain is a subsequence of the chain one
\* level below, the level-0 chain holds every stored tower, and no link of
\* any tower or of the head leads to a tower that is not stored, a tower
\* just removed in particular.
C22_LevelChainStructure ==
    /\ \A i \in 1..Level(heap) :
         LET c == ChainSeq(heap, i)
         IN  /\ c = WithLevelAbove(heap, Iteration(heap), i)
             /\ \A j \in 1..(Len(c) - 1) : heap[c[j]].key < heap[c[j + 1]].key
             /\ (i > 1) => c = WithLevelAbove(heap, ChainSeq(heap, i - 1), i)
    /\ (Level(heap) > 0) =>
          {ChainSeq(heap, 1)[j] : j \in 1..Len(ChainSeq(heap, 1))} = DOMAIN heap \ {head}
    /\ (Level(heap) = 0) => DOMAIN heap = {head}
    /\ \A n \in DOMAIN heap : \A i \in DOMAIN heap[n].next :
         heap[n].next[i] = Nil \/ heap[n].next[i] \in Stored(heap)
    /\ (ret.op \in {"Remove", "RemoveByPos"} /\ ret.node # Nil) =>
          /\ ret.node \notin Stored(heap)
          /\ \A n \in DOMAIN heap : \A i \in DOMAIN heap[n].next : heap[n].next[i] # ret.node

\* the taller of two towers was removed by position: the upper chain is gone
\* and the lower chain holds the tower left
C22_Witness ==
    /\ ret.op = "RemoveByPos"
    /\ ret.node # Nil
    /\ count = MaxKey - 1
    /\ Level(heap) = 1
    /\ heap[head].dist[2] > 0
    /\ Len(ChainSeq(heap, 1)) = MaxKey - 1

\* the head slots that s.head.extendLevel(newLevel) brings back into view
Reexposed(h, newLevel) == (Level(h) + 1)..newLevel

\* C23: index safety. With a level policy that returns levels of
\* 1..maxLevel no call panics (no index outside a slice's length, no nil
\* tower dereferenced, no re-slicing beyond the capacity), whatever was
\* removed before; Level() never exceeds maxLevel and no tower's length
\* exceeds its capacity; and for every level the policy may return, the head
\* slots that extendLevel brings back into view hold nil and 0, and the
\* counters Set then writes there are Size() + 1, not what a shrink left.
C23_IndexSafety ==
    /\ ~panicked
    /\ sMaxLevel(heap) = maxLevel
    /\ Level(heap) <= sMaxLevel(heap)
    /\ \A n \in DOMAIN heap :
         /\ Len(heap[n].next) = Len(heap[n].dist)
         /\ heap[n].len <= Len(heap[n].next)
    /\ \A newLevel \in Levels :
         /\ resliceOk(makeUpdate(heap), newLevel)
         /\ \A i \in Reexposed(heap, newLevel) :
              /\ extendLevel(heap[head], newLevel).next[i] = Nil
              /\ extendLevel(heap[head], newLevel).dist[i] = 0
              /\ growHead(heap[head], Level(heap), newLevel, count).next[i] = Nil
              /\ growHead(heap[head], Level(heap), newLevel, count).dist[i] = Size(count) + 1
    /\ \A key \in Keys : \A newLevel \in Levels :
         Set(heap, count, key, dummyValue, newLevel).ok

\* a Set into the emptied list has extended the head from 0 to 1 level, and
\* the slot above still holds the counter an earlier, taller list left
C23_Witness ==
    /\ ~panicked
    /\ ret.op = "Set"
    /\ ret.inserted
    /\ count = 1
    /\ Level(heap) = 1
    /\ heap[head].dist[2] # 0
====
